---- MODULE Spec2Model ----
(***************************************************************************)
(* A model of regfix: the header analysis and repair of a registry hive    *)
(* file (src/src/registry.rs, the library the GUI of src/src/gui.rs uses,  *)
(* and src/src/main.rs, the command line front end with its own copy).     *)
(*                                                                         *)
(* A u32 is kept at its full width as a pair <<hi, lo>> of 16-bit limbs    *)
(* (TLC's integers stop at 2^31 - 1); a file length, a u64, is a pair      *)
(* <<high, low>> of a small number of 2^32 units and a u32.  A file is the *)
(* record [size, data]: its length and its first min(size, 512) bytes, the *)
(* only bytes the program reads or writes one by one.                      *)
(***************************************************************************)
EXTENDS Integers, Sequences, FiniteSets, Bags, TLC

VARIABLES
    build,    \* "debug" | "release": whether u32 overflow panics or wraps
    file,     \* the hive file on disk
    backup,   \* the file at <path>.backup
    out,      \* results of calculate_header_checksum on a buffer and on a twin
    res,      \* the outcome of the last analysis
    run,      \* the fix run (applyFixes) in progress
    gui       \* the GUI: its UiState, its channel and its threads in flight

vars == <<build, file, backup, out, res, run, gui>>

----------------------------------------------------------------------------
(* Bounds of the model.                                                    *)

\* How many header fields of an input file deviate from a valid header.
MaxFaults == 2
\* How many 32-bit words of a checksum input buffer are set at once.
MaxWords == 2
\* How many fix runs are made on a file, one after the other.
MaxRuns == 2
\* How many times the user clicks in the GUI; selecting a file takes two
\* clicks, on 'Select Registry File' and in the file dialog.
MaxClicks == 4

----------------------------------------------------------------------------
(* Program constants.                                                      *)

\* let base_offset = 4096; // 0x1000
base_offset == 4096
\* for i in (0..508).step_by(4): the checksummed range, and the checksum's offset
CHECKSUM_OFFSET == 508
\* the header length the analysis reads: mmap[508..512]
HEADER_LEN == 512
OFF_PRIMARY == 4
OFF_SECONDARY == 8
OFF_MAJOR == 20
OFF_MINOR == 24
OFF_FILE_TYPE == 28
OFF_FILE_FORMAT == 32
OFF_ROOT_CELL == 36
OFF_HIVE_BINS == 40
OFF_CLUSTERING == 44

----------------------------------------------------------------------------
(* 32-bit unsigned integers.                                               *)

LIMB == 256 * 256

U32(hi, lo) == <<hi, lo>>
Hi(x) == x[1]
Lo(x) == x[2]
U32Small(n) == <<n \div LIMB, n % LIMB>>
ZERO32 == <<0, 0>>
MAX32 == <<LIMB - 1, LIMB - 1>>

\* the bytes read most significant first, as u32::from_be_bytes does
from_be_bytes(b) == <<b[1] * 256 + b[2], b[3] * 256 + b[4]>>

\* u32::from_le_bytes: b[1] is the least significant byte
from_le_bytes(b) == <<b[4] * 256 + b[3], b[2] * 256 + b[1]>>

\* u32::to_le_bytes
to_le_bytes(x) == <<Lo(x) % 256, Lo(x) \div 256, Hi(x) % 256, Hi(x) \div 256>>

RECURSIVE BitXor(_, _)
BitXor(a, b) ==
    IF a = 0 THEN b
    ELSE IF b = 0 THEN a
    ELSE (((a % 2) + (b % 2)) % 2) + 2 * BitXor(a \div 2, b \div 2)

\* checksum ^= value
Xor32(x, y) == <<BitXor(Hi(x), Hi(y)), BitXor(Lo(x), Lo(y))>>

\* a < b on u32
Lt32(a, b) == Hi(a) < Hi(b) \/ (Hi(a) = Hi(b) /\ Lo(a) < Lo(b))
Ge32(a, b) == ~Lt32(a, b)

\* a + b on u32: the wrapped sum and whether it overflowed
Add32(a, b) ==
    LET lo == Lo(a) + Lo(b)
        hi == Hi(a) + Hi(b) + (lo \div LIMB)
    IN  [val |-> <<hi % LIMB, lo % LIMB>>, overflow |-> hi >= LIMB]

\* a - b on u32: the wrapped difference and whether it overflowed
Sub32(a, b) ==
    LET lo == Lo(a) - Lo(b)
        borrow == IF lo < 0 THEN 1 ELSE 0
        hi == Hi(a) - Hi(b) - borrow
    IN  [val |-> <<(hi + LIMB) % LIMB, (lo + LIMB) % LIMB>>, overflow |-> hi < 0]

----------------------------------------------------------------------------
(* Buffers and files.                                                      *)

\* &data[off..off+4], offsets counted from 0
Slice4(data, off) == <<data[off + 1], data[off + 2], data[off + 3], data[off + 4]>>

\* the little-endian u32 at byte offset off
ReadU32(data, off) == from_le_bytes(Slice4(data, off))

Max(a, b) == IF a >= b THEN a ELSE b
Min(a, b) == IF a <= b THEN a ELSE b

\* seek(SeekFrom::Start(off)) then write_all of 4 bytes: the bytes at
\* off..off+4 are replaced; a file that ends before off+4 grows, zero filled
WriteBytes(data, off, b) ==
    IF off + 4 <= Len(data)
    THEN [data EXCEPT ![off + 1] = b[1], ![off + 2] = b[2],
                      ![off + 3] = b[3], ![off + 4] = b[4]]
    ELSE [i \in 1..(off + 4) |->
            IF i > off THEN b[i - off]
            ELSE IF i <= Len(data) THEN data[i]
            ELSE 0]

----------------------------------------------------------------------------
(* registry.rs / main.rs: calculate_header_checksum.                       *)

\* for i in (0..508).step_by(4) { checksum ^= u32::from_le_bytes(data[i..i+4]) }
\* The loop runs in stretches of 16 words (TLC's stack bounds the depth of a
\* recursion); each step takes the evaluated checksum of the step before.
RECURSIVE XorStretch(_, _, _, _)
XorStretch(data, i, end, checksum) ==
    IF i >= end THEN checksum
    ELSE CHOOSE r \in { XorStretch(data, i + 4, end, next) :
                            next \in {Xor32(checksum, ReadU32(data, i))} } : TRUE

RECURSIVE XorWords(_, _, _)
XorWords(data, i, checksum) ==
    IF i >= CHECKSUM_OFFSET THEN checksum
    ELSE CHOOSE r \in { XorWords(data, end, next) :
                            end \in {Min(i + 64, CHECKSUM_OFFSET)},
                            next \in {XorStretch(data, i, Min(i + 64, CHECKSUM_OFFSET),
                                                 checksum)} } : TRUE

\* &data[i..i+4] panics on a buffer that ends before byte 508
ChecksumPanics(data) == Len(data) < CHECKSUM_OFFSET

\* a checksum with no special case
SpecialCases_none(checksum) == checksum

\* if checksum == 0xFFFFFFFF { 0xFFFFFFFE } else if checksum == 0 { 1 }
SpecialCases(checksum) ==
    IF checksum = MAX32 THEN <<LIMB - 1, LIMB - 2>>
    ELSE IF checksum = ZERO32 THEN <<0, 1>>
    ELSE checksum

calculate_header_checksum(data) ==
    CHOOSE r \in { SpecialCases(checksum) :
                     checksum \in { XorWords(d, 0, ZERO32) : d \in {data} } } : TRUE

----------------------------------------------------------------------------
(* types.rs: ValidationIssue, FixType, FixData, FileInfo, AnalysisResult.  *)

\* Option<FixType>: "None" or one of FixTypes
FixTypes == {"HiveBinsSize", "Checksum", "SequenceNumbers"}

\* Option<FixData>: <<"None">>, <<"HiveBinsSize", v>>, <<"Checksum", v>> or
\* <<"SequenceNumbers", primary, secondary>>
NoFixData == <<"None">>

Issue(severity, message, fix_type, fix_data) ==
    [severity |-> severity, message |-> message,
     fix_type |-> fix_type, fix_data |-> fix_data]

NoInfo ==
    [size |-> ZERO32, signature |-> <<>>, primary_seq_num |-> ZERO32,
     secondary_seq_num |-> ZERO32, major_version |-> ZERO32,
     minor_version |-> ZERO32, file_type |-> ZERO32, file_format |-> ZERO32,
     root_cell_offset |-> ZERO32, hive_bins_size |-> ZERO32,
     measured_hive_bins_size |-> ZERO32, clustering_factor |-> ZERO32,
     stored_checksum |-> ZERO32, calculated_checksum |-> ZERO32]

\* what a call of the analysis ends in: Ok(AnalysisResult), Err(e), or a panic
Outcome(by, kind, issues, info) ==
    [by |-> by, kind |-> kind, issues |-> issues, file_info |-> info]

\* the length of a file of n bytes, n small
SizeSmall(n) == <<0, U32Small(n)>>

\* the values of the variables before anything has happened
NoOut == [done |-> FALSE, sum |-> ZERO32, twin_tail |-> <<>>, twin_sum |-> ZERO32]
NoFile == [exists |-> FALSE, size |-> <<0, ZERO32>>, data |-> <<>>]
NoRes == Outcome("none", "None", <<>>, NoInfo)
NoRunRec ==
    [front |-> "none", pc |-> "none", fixes |-> <<>>, selected |-> <<>>,
     analysis |-> NoRes, needs_checksum_update |-> FALSE,
     error_occurred |-> FALSE, sent |-> <<>>, result |-> "None",
     backed_up |-> "no", start |-> NoFile, reanalyzed |-> FALSE,
     writes |-> <<>>, n |-> 0]
\* gui.rs UiState::default(), an empty channel and no thread spawned
\* (analysis_path is analysis_result.file_info.path; applied tells whether
\* 'Apply Fixes' has been clicked)
NoGui ==
    [selected_file |-> "none", analysis_result |-> NoRes, analysis_path |-> "none",
     show_fix_dialog |-> FALSE, selected_fixes |-> <<>>, status_message |-> "",
     channel |-> <<>>, threads |-> EmptyBag, clicks |-> 0, applied |-> FALSE]

----------------------------------------------------------------------------
(* The analysis: registry.rs check_registry_file, and the analysis part of *)
(* main.rs check_registry_file.                                            *)

\* std::str::from_utf8 on the bytes from index i on
RECURSIVE ValidUtf8From(_, _)
ValidUtf8From(b, i) ==
    LET n == Len(b)
        Cont(j) == j <= n /\ b[j] >= 128 /\ b[j] <= 191
        In(j, lo, hi) == j <= n /\ b[j] >= lo /\ b[j] <= hi
    IN  IF i > n THEN TRUE
        ELSE IF b[i] < 128 THEN ValidUtf8From(b, i + 1)
        ELSE IF b[i] >= 194 /\ b[i] <= 223
             THEN Cont(i + 1) /\ ValidUtf8From(b, i + 2)
        ELSE IF b[i] = 224
             THEN In(i + 1, 160, 191) /\ Cont(i + 2) /\ ValidUtf8From(b, i + 3)
        ELSE IF b[i] = 237
             THEN In(i + 1, 128, 159) /\ Cont(i + 2) /\ ValidUtf8From(b, i + 3)
        ELSE IF b[i] >= 225 /\ b[i] <= 239
             THEN Cont(i + 1) /\ Cont(i + 2) /\ ValidUtf8From(b, i + 3)
        ELSE IF b[i] = 240
             THEN In(i + 1, 144, 191) /\ Cont(i + 2) /\ Cont(i + 3)
                  /\ ValidUtf8From(b, i + 4)
        ELSE IF b[i] = 244
             THEN In(i + 1, 128, 143) /\ Cont(i + 2) /\ Cont(i + 3)
                  /\ ValidUtf8From(b, i + 4)
        ELSE IF b[i] >= 241 /\ b[i] <= 243
             THEN Cont(i + 1) /\ Cont(i + 2) /\ Cont(i + 3) /\ ValidUtf8From(b, i + 4)
        ELSE FALSE

from_utf8_ok(b) == ValidUtf8From(b, 1)

\* "regf"
REGF == <<114, 101, 103, 102>>

\* file.metadata()?.len() as u32: the low 32 bits of the length
as_u32(size) == size[2]

\* the length n of the mapping as a number when the file is shorter than a
\* header, else HEADER_LEN: whether mmap[a..b] is in bounds is b <= MapLen
MapLen(f) == Len(f.data)

IsEmpty(f) == f.size = <<0, ZERO32>>

\* an arithmetic overflow panics in a debug build and wraps in a release one
Overflows(b, r) == b = "debug" /\ r.overflow

SignatureIssue ==
    Issue("Critical", "Invalid signature", "None", NoFixData)
\* a checksum issue that proposes the stored checksum as the fix
ChecksumIssue_stored(stored_checksum, calculated_checksum) ==
    Issue("Critical", "Header checksum mismatch", "Checksum",
          <<"Checksum", stored_checksum>>)
ChecksumIssue(stored_checksum, calculated_checksum) ==
    Issue("Critical", "Header checksum mismatch", "Checksum",
          <<"Checksum", calculated_checksum>>)
\* a hive bins size issue that carries its value as FixData::Checksum
HiveBinsIssue_checksum_data(measured_hive_bins_size) ==
    Issue("Warning", "Hive bins size mismatch", "HiveBinsSize",
          <<"Checksum", measured_hive_bins_size>>)
HiveBinsIssue(measured_hive_bins_size) ==
    Issue("Warning", "Hive bins size mismatch", "HiveBinsSize",
          <<"HiveBinsSize", measured_hive_bins_size>>)
\* a sequence issue that proposes the secondary number as the fix
SequenceIssue_secondary(primary_seq_num, secondary_seq_num) ==
    Issue("Warning", "Sequence numbers do not match", "SequenceNumbers",
          <<"SequenceNumbers", secondary_seq_num, secondary_seq_num>>)
SequenceIssue(primary_seq_num, secondary_seq_num) ==
    Issue("Warning", "Sequence numbers do not match", "SequenceNumbers",
          <<"SequenceNumbers", primary_seq_num, primary_seq_num>>)
RootCellIssue ==
    Issue("Critical", "Invalid root cell offset", "None", NoFixData)
VersionIssue ==
    Issue("Warning", "Unexpected version numbers", "None", NoFixData)
FileTypeIssue ==
    Issue("Warning", "Unexpected file type", "None", NoFixData)
FileFormatIssue ==
    Issue("Warning", "Unexpected file format", "None", NoFixData)

\* if cond { issues.push(issue) }
PushIf(cond, issue) == IF cond THEN <<issue>> ELSE <<>>

\* the header fields both analyses extract from the mapping
Fields(f) ==
    [size |-> as_u32(f.size),
     signature |-> SubSeq(f.data, 1, 4),
     primary_seq_num |-> ReadU32(f.data, OFF_PRIMARY),
     secondary_seq_num |-> ReadU32(f.data, OFF_SECONDARY),
     major_version |-> ReadU32(f.data, OFF_MAJOR),
     minor_version |-> ReadU32(f.data, OFF_MINOR),
     file_type |-> ReadU32(f.data, OFF_FILE_TYPE),
     file_format |-> ReadU32(f.data, OFF_FILE_FORMAT),
     root_cell_offset |-> ReadU32(f.data, OFF_ROOT_CELL),
     hive_bins_size |-> ReadU32(f.data, OFF_HIVE_BINS),
     clustering_factor |-> ReadU32(f.data, OFF_CLUSTERING),
     stored_checksum |-> ReadU32(f.data, CHECKSUM_OFFSET),
     calculated_checksum |-> calculate_header_checksum(f.data)]

\* the four rules with the sequence number rule run before the size rule
RegistryIssues_sequence_first(h, measured_hive_bins_size) ==
    PushIf(h.signature # REGF, SignatureIssue)
    \o PushIf(h.stored_checksum # h.calculated_checksum,
              ChecksumIssue(h.stored_checksum, h.calculated_checksum))
    \o PushIf(h.primary_seq_num # h.secondary_seq_num,
              SequenceIssue(h.primary_seq_num, h.secondary_seq_num))
    \o PushIf(h.hive_bins_size # measured_hive_bins_size,
              HiveBinsIssue(measured_hive_bins_size))

\* registry.rs: the four rules of check_registry_file, in order
RegistryIssues(h, measured_hive_bins_size) ==
    PushIf(h.signature # REGF, SignatureIssue)
    \o PushIf(h.stored_checksum # h.calculated_checksum,
              ChecksumIssue(h.stored_checksum, h.calculated_checksum))
    \o PushIf(h.hive_bins_size # measured_hive_bins_size,
              HiveBinsIssue(measured_hive_bins_size))
    \o PushIf(h.primary_seq_num # h.secondary_seq_num,
              SequenceIssue(h.primary_seq_num, h.secondary_seq_num))

\* registry.rs: check_registry_file(file_path) in a build b; io is whether
\* File::open, metadata and the mapping succeed
check_registry_file(f, b, io) ==
    IF io # "ok" \/ ~f.exists THEN Outcome("registry", "Err", <<>>, NoInfo)
    ELSE IF IsEmpty(f) THEN Outcome("registry", "Err", <<>>, NoInfo)
    ELSE IF MapLen(f) < 4 THEN Outcome("registry", "Panic", <<>>, NoInfo)
    ELSE IF ~from_utf8_ok(SubSeq(f.data, 1, 4))
         THEN Outcome("registry", "Err", <<>>, NoInfo)
    ELSE IF MapLen(f) < HEADER_LEN THEN Outcome("registry", "Panic", <<>>, NoInfo)
    ELSE LET h == Fields(f)
             measured == Sub32(h.size, U32Small(base_offset))
         IN  IF Overflows(b, measured)
             THEN Outcome("registry", "Panic", <<>>, NoInfo)
             ELSE Outcome("registry", "Ok",
                          RegistryIssues(h, measured.val),
                          h @@ [measured_hive_bins_size |-> measured.val])

\* main.rs: if major_version != 1 || !(3..=6).contains(&minor_version)
BadVersion(major_version, minor_version) ==
    \/ major_version # <<0, 1>>
    \/ Lt32(minor_version, <<0, 3>>)
    \/ Lt32(<<0, 6>>, minor_version)

\* main.rs: the eight rules of check_registry_file, in order
MainIssues(h, measured_hive_bins_size, absolute_root_offset) ==
    PushIf(h.signature # REGF, SignatureIssue)
    \o PushIf(h.stored_checksum # h.calculated_checksum,
              ChecksumIssue(h.stored_checksum, h.calculated_checksum))
    \o PushIf(h.hive_bins_size # measured_hive_bins_size,
              HiveBinsIssue(measured_hive_bins_size))
    \o PushIf(h.primary_seq_num # h.secondary_seq_num,
              SequenceIssue(h.primary_seq_num, h.secondary_seq_num))
    \o PushIf(Ge32(absolute_root_offset, h.size), RootCellIssue)
    \o PushIf(BadVersion(h.major_version, h.minor_version), VersionIssue)
    \o PushIf(h.file_type # ZERO32, FileTypeIssue)
    \o PushIf(h.file_format # <<0, 1>>, FileFormatIssue)

\* main.rs: check_registry_file(file_path) up to its analysis summary, in a
\* build b: the issues it lists, or the error or panic it ends in
main_check_registry_file(f, b, io) ==
    IF io # "ok" \/ ~f.exists THEN Outcome("main", "Err", <<>>, NoInfo)
    ELSE IF IsEmpty(f) THEN Outcome("main", "Err", <<>>, NoInfo)
    ELSE IF MapLen(f) < 4 THEN Outcome("main", "Panic", <<>>, NoInfo)
    ELSE IF ~from_utf8_ok(SubSeq(f.data, 1, 4))
         THEN Outcome("main", "Err", <<>>, NoInfo)
    ELSE IF MapLen(f) < HEADER_LEN THEN Outcome("main", "Panic", <<>>, NoInfo)
    ELSE LET h == Fields(f)
             expected_size == Add32(U32Small(base_offset), h.hive_bins_size)
             measured == Sub32(h.size, U32Small(base_offset))
             absolute_root_offset == Add32(U32Small(base_offset), h.root_cell_offset)
         IN  IF \/ Overflows(b, expected_size)
                \/ Overflows(b, measured)
                \/ Overflows(b, absolute_root_offset)
             THEN Outcome("main", "Panic", <<>>, NoInfo)
             ELSE Outcome("main", "Ok",
                          MainIssues(h, measured.val, absolute_root_offset.val),
                          h @@ [measured_hive_bins_size |-> measured.val])

----------------------------------------------------------------------------
(* Input buffers of the checksum: a zero buffer of 508, 512 or 516 bytes   *)
(* with up to MaxWords words set.                                          *)

ZeroBuf(n) == [i \in 1..n |-> 0]

\* byte offsets of the words an input sets: the first, one in the middle,
\* the last checksummed one, and the word after the range
WordOffsets == {0, 252, 504, 508}

WordValues ==
    { MAX32, <<0, 1>>, <<4660, 22136>>, <<60875, 43399>> }

RECURSIVE BufsWith(_, _)
BufsWith(n, k) ==
    IF k = 0 THEN {ZeroBuf(n)}
    ELSE LET prev == BufsWith(n, k - 1)
         IN  prev \cup
             { WriteBytes(b, o, to_le_bytes(v)) :
                 b \in prev, o \in {x \in WordOffsets : x + 4 <= n}, v \in WordValues }

ChecksumInputs ==
    BufsWith(CHECKSUM_OFFSET, MaxWords) \cup BufsWith(HEADER_LEN, MaxWords)

\* the bytes a twin buffer carries after the checksummed range
TwinTails == { <<>>, <<0, 0, 0, 0>>, <<255, 255, 255, 255>>, <<1, 2, 3, 4, 5, 6, 7, 8>> }

BufFile(data) == [exists |-> TRUE, size |-> SizeSmall(Len(data)), data |-> data]

InitChecksum ==
    /\ build \in {"debug", "release"}
    /\ file \in { BufFile(d) : d \in ChecksumInputs }
    /\ backup = NoFile
    /\ out = NoOut
    /\ res = NoRes
    /\ run = NoRunRec
    /\ gui = NoGui

\* calculate_header_checksum(&mmap) on the buffer, and on a twin that has the
\* same first 508 bytes and other bytes after them
Checksum ==
    /\ ~out.done
    /\ \E t \in TwinTails :
        out' = [done |-> TRUE,
                sum |-> calculate_header_checksum(file.data),
                twin_tail |-> t,
                twin_sum |-> calculate_header_checksum(
                                SubSeq(file.data, 1, CHECKSUM_OFFSET) \o t)]
    /\ UNCHANGED <<gui, build, file, backup, res, run>>

NextChecksum == Checksum

SpecChecksum == InitChecksum /\ [][NextChecksum]_vars

----------------------------------------------------------------------------
(* Input hive files: a valid header in a file of 4096 + 8192 bytes, with   *)
(* up to MaxFaults of its fields replaced.                                 *)

\* the length 2^32 * high + low
Size64(high, low) == <<high, U32Small(low)>>

ValidHeader ==
    [signature |-> REGF, primary |-> <<0, 5>>, secondary |-> <<0, 5>>,
     major |-> <<0, 1>>, minor |-> <<0, 3>>, file_type |-> ZERO32,
     file_format |-> <<0, 1>>, root |-> <<0, 32>>, hbs |-> <<0, 8192>>,
     clustering |-> <<0, 1>>, bad_checksum |-> FALSE, size |-> Size64(0, 12288)]

\* a fault: a field and the value that replaces it
Faults ==
    {<<"signature", x>> : x \in {<<120, 120, 120, 120>>, <<114, 101, 255, 102>>}}
    \cup {<<"primary", x>> : x \in {<<0, 3>>, MAX32}}
    \cup {<<"secondary", x>> : x \in {<<0, 3>>}}
    \cup {<<"major", x>> : x \in {<<0, 2>>}}
    \cup {<<"minor", x>> : x \in {<<0, 2>>, <<0, 6>>, <<0, 7>>}}
    \cup {<<"file_type", x>> : x \in {<<0, 1>>}}
    \cup {<<"file_format", x>> : x \in {ZERO32}}
    \cup {<<"root", x>> : x \in {<<0, 8191>>, <<0, 8192>>, <<65535, 61440>>}}
    \cup {<<"hbs", x>> : x \in {ZERO32, <<0, 8193>>, <<65535, 61440>>, MAX32}}
    \cup {<<"bad_checksum", TRUE>>}
    \cup {<<"size", x>> : x \in {Size64(0, 100), Size64(0, 512), Size64(0, 4095),
                                  Size64(0, 4096), Size64(0, 12289), Size64(1, 12288)}}

RECURSIVE Faulty(_)
Faulty(k) ==
    IF k = 0 THEN {ValidHeader}
    ELSE LET prev == Faulty(k - 1)
         IN  prev \cup { [h EXCEPT ![f[1]] = f[2]] : h \in prev, f \in Faults }

\* the 512 header bytes of the fields h, the checksum left zero
HeaderFields(h) ==
    LET b0 == [ZeroBuf(HEADER_LEN) EXCEPT ![1] = h.signature[1], ![2] = h.signature[2],
                                          ![3] = h.signature[3], ![4] = h.signature[4]]
        b1 == WriteBytes(b0, OFF_PRIMARY, to_le_bytes(h.primary))
        b2 == WriteBytes(b1, OFF_SECONDARY, to_le_bytes(h.secondary))
        b3 == WriteBytes(b2, OFF_MAJOR, to_le_bytes(h.major))
        b4 == WriteBytes(b3, OFF_MINOR, to_le_bytes(h.minor))
        b5 == WriteBytes(b4, OFF_FILE_TYPE, to_le_bytes(h.file_type))
        b6 == WriteBytes(b5, OFF_FILE_FORMAT, to_le_bytes(h.file_format))
        b7 == WriteBytes(b6, OFF_ROOT_CELL, to_le_bytes(h.root))
        b8 == WriteBytes(b7, OFF_HIVE_BINS, to_le_bytes(h.hbs))
    IN  WriteBytes(b8, OFF_CLUSTERING, to_le_bytes(h.clustering))

\* how many of its bytes a file of the given length keeps in data
DataLen(size) ==
    IF size[1] > 0 \/ Hi(size[2]) > 0 \/ Lo(size[2]) >= HEADER_LEN
    THEN HEADER_LEN
    ELSE Lo(size[2])

\* the hive file of the fields h: the stored checksum is the right one, or 0
\* (which no header's checksum is) when h.bad_checksum
HiveFile(h) ==
    LET b == HeaderFields(h)
        stored == IF h.bad_checksum THEN ZERO32 ELSE calculate_header_checksum(b)
        full == WriteBytes(b, CHECKSUM_OFFSET, to_le_bytes(stored))
    IN  [exists |-> TRUE, size |-> h.size, data |-> SubSeq(full, 1, DataLen(h.size))]

InputFiles == { HiveFile(h) : h \in Faulty(MaxFaults) }

----------------------------------------------------------------------------
(* The analysis of an input file, by the library and by the command line.  *)

InitAnalyze ==
    /\ build \in {"debug", "release"}
    /\ file \in InputFiles
    /\ backup = NoFile
    /\ out = NoOut
    /\ res = NoRes
    /\ run = NoRunRec
    /\ gui = NoGui

\* an analysis that leaves a copy of the file behind
AnalyzeRegistry_copying ==
    /\ res.by = "none"
    /\ \E io \in {"ok", "fail"} : res' = check_registry_file(file, build, io)
    /\ backup' = file
    /\ UNCHANGED <<gui, build, file, out, run>>

\* gui.rs: registry::check_registry_file(&path_str) in a worker
AnalyzeRegistry ==
    /\ res.by = "none"
    /\ \E io \in {"ok", "fail"} : res' = check_registry_file(file, build, io)
    /\ UNCHANGED <<gui, build, file, backup, out, run>>

\* main.rs: check_registry_file(file_path) up to the analysis summary
AnalyzeMain ==
    /\ res.by = "none"
    /\ \E io \in {"ok", "fail"} : res' = main_check_registry_file(file, build, io)
    /\ UNCHANGED <<gui, build, file, backup, out, run>>

NextAnalyze == AnalyzeRegistry \/ AnalyzeMain

SpecAnalyze == InitAnalyze /\ [][NextAnalyze]_vars

----------------------------------------------------------------------------
(* The writes of a fix: registry.rs / main.rs update_hive_bins_size,       *)
(* update_sequence_numbers, update_checksum, and backup_file.  io is where *)
(* the call fails, if it does: "ok", "fail" (open, seek or the first write *)
(* fails: nothing is written) or "fail_second" (update_sequence_numbers    *)
(* has written the primary number when the second seek or write fails).    *)

\* a write through a handle opened with append(true): the 4 bytes go to the
\* end of the file, wherever the seek went
FileWrite_appending(f, off, v) ==
    LET grown == Add32(f.size[2], U32Small(4))
        all == f.data \o to_le_bytes(v)
    IN  [f EXCEPT !.data = IF Len(f.data) < HEADER_LEN
                          THEN SubSeq(all, 1, Min(Len(all), HEADER_LEN))
                          ELSE @,
                  !.size = <<f.size[1] + (IF grown.overflow THEN 1 ELSE 0), grown.val>>]

\* a write through a handle opened with truncate(true): the file ends after
\* the 4 bytes written
FileWrite_truncating(f, off, v) ==
    [f EXCEPT !.data = SubSeq(WriteBytes(@, off, to_le_bytes(v)), 1, off + 4),
              !.size = SizeSmall(off + 4)]

\* the file after 4 bytes are written at off
FileWrite(f, off, v) ==
    [f EXCEPT !.data = WriteBytes(@, off, to_le_bytes(v)),
              !.size = IF Len(f.data) < off + 4 THEN SizeSmall(off + 4) ELSE @]

update_hive_bins_size(f, new_size, io) ==
    IF io = "ok" /\ f.exists THEN FileWrite(f, OFF_HIVE_BINS, new_size) ELSE f

update_sequence_numbers(f, primary, secondary, io) ==
    IF ~f.exists \/ io = "fail" THEN f
    ELSE IF io = "fail_second" THEN FileWrite(f, OFF_PRIMARY, primary)
    ELSE FileWrite(FileWrite(f, OFF_PRIMARY, primary), OFF_SECONDARY, secondary)

\* a checksum update that seeks to the hive bins size field
update_checksum_at_hive_bins(f, new_checksum, io) ==
    IF io = "ok" /\ f.exists THEN FileWrite(f, OFF_HIVE_BINS, new_checksum) ELSE f

update_checksum(f, new_checksum, io) ==
    IF io = "ok" /\ f.exists THEN FileWrite(f, CHECKSUM_OFFSET, new_checksum) ELSE f

\* whether the call returned Ok(())
WriteOk(f, io) == io = "ok" /\ f.exists

\* fs::copy(file_path, &backup_path): the copy, or on failure the old backup
\* left alone ("fail") or a backup created and left empty ("fail_created")
backup_file(f, old, io) ==
    IF io = "ok" /\ f.exists THEN f
    ELSE IF io = "fail_created" /\ f.exists
         THEN [exists |-> TRUE, size |-> Size64(0, 0), data |-> <<>>]
    ELSE old

----------------------------------------------------------------------------
(* A fix run: main.rs check_registry_file from prompt_for_fixes on, and    *)
(* the worker gui.rs spawns for Message::FixSelected.                      *)

\* the fix types of the fixable issues, in the order of the issues
RECURSIVE FixableTypes(_)
FixableTypes(issues) ==
    IF issues = <<>> THEN <<>>
    ELSE (IF Head(issues).fix_type # "None" THEN <<Head(issues).fix_type>> ELSE <<>>)
         \o FixableTypes(Tail(issues))

\* the subsequences of s: the elements a mask keeps, in order
RECURSIVE Keep(_, _, _)
Keep(s, mask, i) ==
    IF i > Len(s) THEN <<>>
    ELSE (IF mask[i] THEN <<s[i]>> ELSE <<>>) \o Keep(s, mask, i + 1)

SubSeqs(s) == { Keep(s, mask, 1) : mask \in [1..Len(s) -> BOOLEAN] }

\* main.rs prompt_for_fixes: "1" returns every fixable issue's type, "2" the
\* ones the user says y to, anything else none
prompt_for_fixes(issues) == SubSeqs(FixableTypes(issues))

\* gui.rs render_issues / render_fix_dialog: the Vec of a FixSelected is
\* the fix types of the fixable issues of an analysis shown when
\* 'Fix All Issues' was clicked, in the order of its issues
FixSelectedLists ==
    SubSeqs(<<"Checksum", "HiveBinsSize", "SequenceNumbers">>) \ {<<>>}

\* issues.iter().find(|i| i.fix_type.as_ref() == Some(&fix_type))
FindIssue(issues, fix_type) ==
    LET hits == { i \in 1..Len(issues) : issues[i].fix_type = fix_type }
    IN  IF hits = {} THEN 0 ELSE CHOOSE i \in hits : \A j \in hits : i <= j

\* a run that notes the failure of a call and goes on with its loop
Failed_goes_on(r, msg) ==
    IF r.front = "cli"
    THEN [r EXCEPT !.result = "Err"]
    ELSE [r EXCEPT !.error_occurred = TRUE, !.sent = Append(@, msg)]

\* the run after a failed call: main.rs returns the error with `?`; the gui
\* worker sends FixComplete(msg) and ends
Failed(r, msg) ==
    IF r.front = "cli"
    THEN [r EXCEPT !.pc = "done", !.result = "Err"]
    ELSE [r EXCEPT !.pc = "done", !.error_occurred = TRUE, !.sent = Append(@, msg)]

\* main.rs 402-404: the prompt of a command line run whose analysis listed a
\* fixable issue; with no fix selected the run ends, else it backs up
StartCli ==
    /\ run.pc = "none"
    /\ res.by = "main" /\ res.kind = "Ok"
    /\ FixableTypes(res.issues) # <<>>
    /\ \E fixes \in prompt_for_fixes(res.issues) :
         run' = [NoRunRec EXCEPT !.front = "cli", !.n = run.n + 1,
                                 !.pc = IF fixes = <<>> THEN "done" ELSE "backup",
                                 !.result = IF fixes = <<>> THEN "Ok" ELSE "None",
                                 !.fixes = fixes, !.selected = fixes,
                                 !.analysis = res, !.start = file]
    /\ UNCHANGED <<gui, build, file, backup, out, res>>

\* gui.rs 146-156: Message::FixSelected(fixes) with an analysis_result spawns
\* the fix worker
StartGui ==
    /\ run.pc = "none"
    /\ res.by = "registry" /\ res.kind = "Ok"
    /\ \E fixes \in FixSelectedLists :
         run' = [NoRunRec EXCEPT !.front = "gui", !.pc = "backup",
                                 !.n = run.n + 1,
                                 !.fixes = fixes, !.selected = fixes,
                                 !.analysis = res, !.start = file]
    /\ UNCHANGED <<gui, build, file, backup, out, res>>

\* a run that goes on to its fixes after a failed backup
AfterBackupFailure_goes_on(r) == [r EXCEPT !.pc = "fixes"]

\* where a run goes after a failed backup: it ends with the failure
AfterBackupFailure(r) == Failed(r, "Failed to create backup")

\* main.rs 405, gui.rs 157: backup_file(file_path)
Backup ==
    /\ run.pc = "backup"
    /\ \E io \in {"ok", "fail", "fail_created"} :
         /\ backup' = backup_file(file, backup, io)
         /\ run' = IF WriteOk(file, io)
                   THEN [run EXCEPT !.pc = "fixes", !.backed_up = "ok"]
                   ELSE AfterBackupFailure([run EXCEPT !.backed_up = "failed"])
    /\ UNCHANGED <<gui, build, file, out, res>>

\* the file after the fix of fix_type with the data of issue is written
ApplyFix(f, fix_type, fix_data, io) ==
    IF fix_type = "HiveBinsSize" /\ fix_data[1] = "HiveBinsSize"
    THEN update_hive_bins_size(f, fix_data[2], io)
    ELSE IF fix_type = "Checksum" /\ fix_data[1] = "Checksum"
    THEN update_checksum(f, fix_data[2], io)
    ELSE IF fix_type = "SequenceNumbers" /\ fix_data[1] = "SequenceNumbers"
    THEN update_sequence_numbers(f, fix_data[2], fix_data[3], io)
    ELSE f

FixFailureMessage(fix_type) ==
    IF fix_type = "HiveBinsSize" THEN "Failed to update hive bins size"
    ELSE IF fix_type = "Checksum" THEN "Failed to update checksum"
    ELSE "Failed to update sequence numbers"

\* whether the match arm of fix_type sets needs_checksum_update
IsStructural(fix_type) == fix_type \in {"HiveBinsSize", "SequenceNumbers"}

\* the offsets the seek + write_all pairs of the update of fix_type have
\* written when the call ends as io says, in the order of the writes
OffsetsWritten(fix_type, io) ==
    IF io = "fail" THEN <<>>
    ELSE IF fix_type = "HiveBinsSize" THEN <<OFF_HIVE_BINS>>
    ELSE IF fix_type = "Checksum" THEN <<CHECKSUM_OFFSET>>
    ELSE IF io = "fail_second" THEN <<OFF_PRIMARY>>
    ELSE <<OFF_PRIMARY, OFF_SECONDARY>>

\* the writes of a run so far, each <<step, fix type, offset>>, with those of
\* a call of the loop ("fix") or of the recalculation after it ("final") added
Logged(writes, step, fix_type, offsets) ==
    writes \o [i \in 1..Len(offsets) |-> <<step, fix_type, offsets[i]>>]

\* for fix_type in fixes: the fix type of the next turn of the loop
NextFixType(fixes) == Head(fixes)

\* a turn of the loop that ends the run with a failure although nothing
\* matched the fix type
SkipFix_fails(r) ==
    IF r.front = "cli"
    THEN [r EXCEPT !.fixes = Tail(@), !.pc = "done", !.result = "Err"]
    ELSE [r EXCEPT !.fixes = Tail(@), !.pc = "done", !.error_occurred = TRUE,
                   !.sent = Append(@, "Failed to apply fix")]

\* the run after a turn of the loop in which `find` returned None or the
\* match fell to `_ => {}`: nothing is called, the loop goes on
SkipFix(r) == [r EXCEPT !.fixes = Tail(@)]

\* main.rs 411-431, gui.rs 162-193: one turn of `for fix_type in fixes`
ApplyNextFix ==
    /\ run.pc = "fixes"
    /\ run.fixes # <<>>
    /\ LET fix_type == NextFixType(run.fixes)
           i == FindIssue(run.analysis.issues, fix_type)
           matches == i # 0 /\ run.analysis.issues[i].fix_data[1] = fix_type
       IN  IF ~matches
           THEN /\ run' = SkipFix(run)
                /\ file' = file
           ELSE \E io \in {"ok", "fail", "fail_second"} :
                  /\ io = "fail_second" => fix_type = "SequenceNumbers"
                  /\ file' = ApplyFix(file, fix_type,
                                      run.analysis.issues[i].fix_data, io)
                  /\ LET next == [run EXCEPT
                                    !.fixes = Tail(@),
                                    !.writes = Logged(@, "fix", fix_type,
                                                      OffsetsWritten(fix_type, io))]
                     IN  run' = IF WriteOk(file, io)
                                THEN [next EXCEPT !.needs_checksum_update =
                                                     @ \/ IsStructural(fix_type)]
                                ELSE Failed(next, FixFailureMessage(fix_type))
    /\ UNCHANGED <<gui, build, backup, out, res>>

\* gui.rs 199-205: the worker when the mapping of the reopened file fails:
\* `if let Ok(mmap)` has no else, the worker goes on to report success
GuiMmapFailure(r) ==
    [r EXCEPT !.pc = "done", !.sent = Append(@, "All fixes applied successfully.")]

\* a run that ends in success without a message
Succeeded_silent(r) == [r EXCEPT !.pc = "done", !.result = "Ok"]

Succeeded(r) ==
    IF r.front = "cli"
    THEN [r EXCEPT !.pc = "done", !.result = "Ok"]
    ELSE [r EXCEPT !.pc = "done", !.sent = Append(@, "All fixes applied successfully.")]

\* main.rs 433-440, gui.rs 195-214: after the loop, the checksum is
\* recalculated from the file and written when a structural fix was made
FinalChecksum ==
    /\ run.pc = "fixes"
    /\ run.fixes = <<>>
    /\ IF ~run.needs_checksum_update
       THEN /\ run' = Succeeded(run)
            /\ file' = file
       ELSE \E io \in {"ok", "open_fails", "mmap_fails", "write_fails"} :
              /\ file' = IF io = "ok" /\ ~ChecksumPanics(file.data)
                         THEN update_checksum(file,
                                  calculate_header_checksum(file.data), "ok")
                         ELSE file
              /\ run' = CASE io = "ok" ->
                               Succeeded([run EXCEPT
                                   !.writes = Logged(@, "final", "Checksum",
                                                     <<CHECKSUM_OFFSET>>)])
                          [] io = "open_fails" ->
                               Failed(run, "Failed to open file for checksum update")
                          [] io = "mmap_fails" ->
                               IF run.front = "cli" THEN Failed(run, "")
                               ELSE GuiMmapFailure(run)
                          [] OTHER -> Failed(run, "Failed to update final checksum")
    /\ UNCHANGED <<gui, build, backup, out, res>>

\* gui.rs 223-240: Message::FixComplete has the file analysed again; for the
\* command line, the next run of the program on the file
Reanalyze ==
    /\ run.pc = "done"
    /\ ~run.reanalyzed
    /\ res' = IF run.front = "gui" THEN check_registry_file(file, build, "ok")
              ELSE main_check_registry_file(file, build, "ok")
    /\ run' = [run EXCEPT !.reanalyzed = TRUE]
    /\ UNCHANGED <<gui, build, file, backup, out>>

\* the user has the front end make another fix run on the file, from the
\* analysis made after the run before
NewRun ==
    /\ run.pc = "done"
    /\ run.reanalyzed
    /\ run.n < MaxRuns
    /\ run' = [NoRunRec EXCEPT !.n = run.n]
    /\ UNCHANGED <<gui, build, file, backup, out, res>>

\* a hive file to fix: a valid header with up to MaxFaults of these faults
FixFaults ==
    { f \in Faults :
        \/ f[1] \in {"secondary", "bad_checksum"}
        \/ f = <<"primary", <<0, 3>>>>
        \/ f = <<"signature", <<120, 120, 120, 120>>>>
        \/ f = <<"hbs", ZERO32>>
        \/ f = <<"size", Size64(0, 4095)>> }

RECURSIVE FaultyToFix(_)
FaultyToFix(k) ==
    IF k = 0 THEN {ValidHeader}
    ELSE LET prev == FaultyToFix(k - 1)
         IN  prev \cup { [h EXCEPT ![f[1]] = f[2]] : h \in prev, f \in FixFaults }

FilesToFix == { HiveFile(h) : h \in FaultyToFix(MaxFaults) }

InitFix ==
    /\ build \in {"debug", "release"}
    /\ file \in FilesToFix
    /\ backup = NoFile
    /\ out = NoOut
    /\ res = NoRes
    /\ run = NoRunRec
    /\ gui = NoGui

NextFix ==
    \/ AnalyzeRegistry
    \/ AnalyzeMain
    \/ StartCli
    \/ StartGui
    \/ Backup
    \/ ApplyNextFix
    \/ FinalChecksum
    \/ Reanalyze
    \/ NewRun

SpecFix == InitFix /\ [][NextFix]_vars

----------------------------------------------------------------------------
(* One fix write made twice: update_hive_bins_size, update_sequence_numbers *)
(* or update_checksum called on a file, then called again with the same    *)
(* values.                                                                 *)

\* the calls made: a fix type with the values passed
WriteCalls ==
    {<<"HiveBinsSize", v>> : v \in {<<0, 8192>>, MAX32}}
    \cup {<<"Checksum", v>> : v \in {<<0, 1>>, <<4660, 22136>>}}
    \cup {<<"SequenceNumbers", p, q>> : p \in {<<0, 5>>, <<0, 3>>}, q \in {<<0, 5>>}}

\* the header h with its clustering factor chosen so that the XOR of the 127
\* words is x
Balanced(h, x) ==
    [h EXCEPT !.clustering =
        Xor32(x, XorWords(HeaderFields([h EXCEPT !.clustering = ZERO32]), 0, ZERO32))]

\* hive files whose XOR of the 127 words is a value of the special cases, or
\* one bit away from it
BalancedFiles ==
    { HiveFile(Balanced(h, x)) :
        h \in {ValidHeader, [ValidHeader EXCEPT !.hbs = <<0, 8193>>],
                [ValidHeader EXCEPT !.secondary = <<0, 4>>],
                [ValidHeader EXCEPT !.primary = <<0, 3>>, !.secondary = <<0, 3>>]},
        x \in {ZERO32, <<0, 1>>, MAX32, <<LIMB - 1, LIMB - 2>>} }

\* the files the update_* functions are called on
WriteFiles == InputFiles \cup BalancedFiles

NoCalls == [count |-> 0, call |-> <<"None">>, before |-> NoFile, first |-> NoFile]

InitWrite ==
    /\ build \in {"debug", "release"}
    /\ file \in WriteFiles
    /\ backup = NoFile
    /\ out = NoCalls
    /\ res = NoRes
    /\ run = NoRunRec
    /\ gui = NoGui

\* the first call: update_*(file_path, values) returns Ok(())
FirstWrite ==
    /\ out.count = 0
    /\ \E call \in WriteCalls :
         /\ file' = ApplyFix(file, call[1], call, "ok")
         /\ out' = [count |-> 1, call |-> call, before |-> file, first |-> file']
    /\ UNCHANGED <<gui, build, backup, res, run>>

\* the same call again
SecondWrite ==
    /\ out.count = 1
    /\ file' = ApplyFix(file, out.call[1], out.call, "ok")
    /\ out' = [out EXCEPT !.count = 2]
    /\ UNCHANGED <<gui, build, backup, res, run>>

NextWrite == FirstWrite \/ SecondWrite

SpecWrite == InitWrite /\ [][NextWrite]_vars

----------------------------------------------------------------------------
(* The GUI: gui.rs RegistryFixerApp.  Its update() handles the messages of *)
(* the channel, then renders the buttons; every analysis and every fix run *)
(* is a thread that process_messages spawns and that answers through the   *)
(* channel.                                                                *)

\* types.rs Message
Msg(type, path, fixes, result, text) ==
    [type |-> type, path |-> path, fixes |-> fixes, result |-> result, text |-> text]
FileSelected(path) == Msg("FileSelected", path, <<>>, NoRes, "")
AnalysisComplete(path, result) == Msg("AnalysisComplete", path, <<>>, result, "")
FixSelected(fixes) == Msg("FixSelected", "none", fixes, NoRes, "")
FixComplete(text) == Msg("FixComplete", "none", <<>>, NoRes, text)

\* The user has two paths to select: "hive", the hive file, and "other", a
\* file that is no hive (an empty file), which no analysis result names.
Paths == {"hive", "other"}
OtherFile == [exists |-> TRUE, size |-> Size64(0, 0), data |-> <<>>]
FileAt(path) == IF path = "hive" THEN file ELSE OtherFile

\* the thread of gui.rs 127-136 (from "select") or 234-238 (from "complete")
AnalysisThread(from, path) ==
    [kind |-> "analyze", pc |-> from, path |-> path, fixes |-> <<>>,
     analysis |-> NoRes, needs_checksum_update |-> FALSE]

\* the thread of gui.rs 156-220, about to call backup_file on
\* analysis.file_info.path
FixWorker(fixes, analysis, path) ==
    [kind |-> "fix", pc |-> "backup", path |-> path, fixes |-> fixes,
     analysis |-> analysis, needs_checksum_update |-> FALSE]

\* tx.send(m)
Send(g, m) == [g EXCEPT !.channel = Append(@, m)]

\* The threads in flight are a bag: std::thread::spawn keeps no list of them.
\* std::thread::spawn(..)
Spawned(threads, t) == threads (+) SetToBag({t})

\* the threads in flight without t, which has ended
Ended(threads, t) == threads (-) SetToBag({t})

\* the threads in flight when t has gone on to be u
Moved(threads, t, u) == Spawned(Ended(threads, t), u)

\* gui.rs 118-241: the match of process_messages on one message
HandleMessage(g, m) ==
    CASE m.type = "FileSelected" ->
           [g EXCEPT !.selected_file = m.path,
                     !.status_message = "File selected. Analyzing...",
                     !.threads = Spawned(@, AnalysisThread("select", m.path))]
      [] m.type = "AnalysisComplete" ->
           [g EXCEPT !.analysis_result = m.result,
                     !.analysis_path = m.path,
                     !.status_message = "Analysis complete."]
      [] m.type = "FixSelected" ->
           IF g.analysis_result.kind = "Ok"
           THEN [g EXCEPT !.threads =
                     Spawned(@, FixWorker(m.fixes, g.analysis_result, g.analysis_path))]
           ELSE g
      [] OTHER ->
           [g EXCEPT !.status_message = m.text,
                     !.show_fix_dialog = FALSE,
                     !.threads = IF g.selected_file # "none"
                                 THEN Spawned(@, AnalysisThread("complete",
                                                                g.selected_file))
                                 ELSE @]

\* while let Ok(message) = self.rx.try_recv() { match message { .. } }
RECURSIVE Drain(_, _)
Drain(g, messages) ==
    IF messages = <<>> THEN g
    ELSE Drain(HandleMessage(g, Head(messages)), Tail(messages))

\* gui.rs 116-243: process_messages, at the start of a frame
ProcessMessages ==
    /\ gui.channel # <<>>
    /\ gui' = Drain([gui EXCEPT !.channel = <<>>], gui.channel)
    /\ UNCHANGED <<build, file, backup, out, res, run>>

\* gui.rs 562-563: update() calls process_messages before it renders the
\* buttons, so a button is clicked only after the message of the click before
\* it has been received; a message a thread has sent since may be waiting
Rendered(g) ==
    \A i \in 1..Len(g.channel) :
        g.channel[i].type \notin {"FileSelected", "FixSelected"}

\* render_header: the user clicks 'Select Registry File' and picks a file in
\* the file dialog
ClickSelectFile ==
    /\ Rendered(gui)
    /\ gui.clicks + 2 <= MaxClicks
    /\ \E path \in Paths :
         gui' = Send([gui EXCEPT !.clicks = @ + 2], FileSelected(path))
    /\ UNCHANGED <<build, file, backup, out, res, run>>

\* gui.rs 457-469: 'Fix All Issues', shown when the analysis on display has a
\* fixable issue: the dialog is shown and FixSelected is sent at once
ClickFixAllIssues ==
    /\ Rendered(gui)
    /\ gui.clicks < MaxClicks
    /\ gui.analysis_result.kind = "Ok"
    /\ FixableTypes(gui.analysis_result.issues) # <<>>
    /\ LET fixes == FixableTypes(gui.analysis_result.issues)
       IN  gui' = Send([gui EXCEPT !.clicks = @ + 1,
                                   !.show_fix_dialog = TRUE,
                                   !.selected_fixes = fixes],
                       FixSelected(fixes))
    /\ UNCHANGED <<build, file, backup, out, res, run>>

\* gui.rs 542-547: 'Apply Fixes' in the dialog
ClickApplyFixes ==
    /\ Rendered(gui)
    /\ gui.clicks < MaxClicks
    /\ gui.show_fix_dialog
    /\ gui' = Send([gui EXCEPT !.clicks = @ + 1, !.applied = TRUE],
                   FixSelected(gui.selected_fixes))
    /\ UNCHANGED <<build, file, backup, out, res, run>>

\* gui.rs 548-553: 'Cancel' in the dialog
ClickCancel ==
    /\ Rendered(gui)
    /\ gui.show_fix_dialog
    /\ gui' = [gui EXCEPT !.show_fix_dialog = FALSE, !.selected_fixes = <<>>]
    /\ UNCHANGED <<build, file, backup, out, res, run>>

\* an analysis thread that reports every error with FixComplete
AnalysisThreadRuns_reporting ==
    /\ \E t \in BagToSet(gui.threads) :
         /\ t.kind = "analyze"
         /\ \E io \in {"ok", "fail"} :
              LET path == t.path
                  result == check_registry_file(FileAt(path), build, io)
                  g == [gui EXCEPT !.threads = Ended(@, t)]
              IN  gui' = IF result.kind = "Ok"
                         THEN Send(g, AnalysisComplete(path, result))
                         ELSE Send(g, FixComplete("Analysis failed"))
    /\ UNCHANGED <<build, file, backup, out, res, run>>

\* gui.rs 127-136, 234-238: an analysis thread runs and ends; only the one
\* spawned for FileSelected reports an error
AnalysisThreadRuns ==
    /\ \E t \in BagToSet(gui.threads) :
         /\ t.kind = "analyze"
         /\ \E io \in {"ok", "fail"} :
              LET path == t.path
                  result == check_registry_file(FileAt(path), build, io)
                  g == [gui EXCEPT !.threads = Ended(@, t)]
              IN  gui' = IF result.kind = "Ok"
                         THEN Send(g, AnalysisComplete(path, result))
                         ELSE IF result.kind = "Err" /\ t.pc = "select"
                         THEN Send(g, FixComplete("Analysis failed"))
                         ELSE g
    /\ UNCHANGED <<build, file, backup, out, res, run>>

\* gui.rs 157, 216-218: a fix worker calls backup_file
WorkerBackup ==
    /\ \E t \in BagToSet(gui.threads) :
         /\ t.kind = "fix"
         /\ t.pc = "backup"
         /\ t.path = "hive"
         /\ \E io \in {"ok", "fail", "fail_created"} :
              /\ backup' = backup_file(file, backup, io)
              /\ gui' = IF WriteOk(file, io)
                        THEN [gui EXCEPT !.threads =
                                  Moved(@, t, [t EXCEPT !.pc = "fixes"])]
                        ELSE Send([gui EXCEPT !.threads = Ended(@, t)],
                                  FixComplete("Failed to create backup"))
    /\ UNCHANGED <<build, file, out, res, run>>

\* gui.rs 162-193: one turn of the loop of a fix worker
WorkerAppliesFix ==
    /\ \E t \in BagToSet(gui.threads) :
             /\ t.kind = "fix"
             /\ t.pc = "fixes"
             /\ t.fixes # <<>>
             /\ LET fix_type == NextFixType(t.fixes)
                    k == FindIssue(t.analysis.issues, fix_type)
                    matches == k # 0 /\ t.analysis.issues[k].fix_data[1] = fix_type
                IN  IF ~matches
                    THEN /\ gui' = [gui EXCEPT !.threads =
                                        Moved(@, t, [t EXCEPT !.fixes = Tail(@)])]
                         /\ file' = file
                    ELSE \E io \in {"ok", "fail", "fail_second"} :
                           /\ io = "fail_second" => fix_type = "SequenceNumbers"
                           /\ file' = ApplyFix(file, fix_type,
                                               t.analysis.issues[k].fix_data, io)
                           /\ gui' = IF WriteOk(file, io)
                                     THEN [gui EXCEPT !.threads =
                                             Moved(@, t,
                                                 [t EXCEPT
                                                    !.fixes = Tail(@),
                                                    !.needs_checksum_update =
                                                        @ \/ IsStructural(fix_type)])]
                                     ELSE Send([gui EXCEPT !.threads = Ended(@, t)],
                                               FixComplete(FixFailureMessage(fix_type)))
    /\ UNCHANGED <<build, backup, out, res, run>>

\* gui.rs 195-214: a fix worker after its loop
WorkerFinishes ==
    /\ \E t \in BagToSet(gui.threads) :
         LET g == [gui EXCEPT !.threads = Ended(@, t)]
             success == FixComplete("All fixes applied successfully.")
         IN  /\ t.kind = "fix"
             /\ t.pc = "fixes"
             /\ t.fixes = <<>>
             /\ IF ~t.needs_checksum_update
                THEN /\ gui' = Send(g, success)
                     /\ file' = file
                ELSE \E io \in {"ok", "open_fails", "mmap_fails", "write_fails"} :
                       /\ file' = IF io = "ok" /\ ~ChecksumPanics(file.data)
                                  THEN update_checksum(file,
                                           calculate_header_checksum(file.data), "ok")
                                  ELSE file
                       /\ gui' = CASE io \in {"ok", "mmap_fails"} -> Send(g, success)
                                   [] io = "open_fails" ->
                                        Send(g, FixComplete(
                                            "Failed to open file for checksum update"))
                                   [] OTHER ->
                                        Send(g, FixComplete(
                                            "Failed to update final checksum"))
    /\ UNCHANGED <<build, backup, out, res, run>>

\* the hive files opened in the GUI: one with sequence numbers that differ,
\* one with a wrong hive bins size and a wrong checksum
GuiFiles ==
    { HiveFile([ValidHeader EXCEPT !.secondary = <<0, 3>>]),
      HiveFile([ValidHeader EXCEPT !.hbs = ZERO32, !.bad_checksum = TRUE]) }

InitGui ==
    /\ build \in {"debug", "release"}
    /\ file \in GuiFiles
    /\ backup = NoFile
    /\ out = NoOut
    /\ res = NoRes
    /\ run = NoRunRec
    /\ gui = NoGui

NextGui ==
    \/ ClickSelectFile
    \/ ClickFixAllIssues
    \/ ClickApplyFixes
    \/ ClickCancel
    \/ ProcessMessages
    \/ AnalysisThreadRuns
    \/ WorkerBackup
    \/ WorkerAppliesFix
    \/ WorkerFinishes

SpecGui == InitGui /\ [][NextGui]_vars

\* The GUI opened on one hive, the one whose sequence numbers differ, in the
\* release build: the specification of the message loop.
InitGuiLoop ==
    /\ build = "release"
    /\ file = HiveFile([ValidHeader EXCEPT !.secondary = <<0, 3>>])
    /\ backup = NoFile
    /\ out = NoOut
    /\ res = NoRes
    /\ run = NoRunRec
    /\ gui = NoGui

SpecGuiLoop == InitGuiLoop /\ [][NextGui]_vars

----------------------------------------------------------------------------
(* C1.                                                                     *)

Pow2(k) == IF k = 0 THEN 1 ELSE IF k = 1 THEN 2 ELSE IF k = 2 THEN 4
           ELSE IF k = 3 THEN 8 ELSE IF k = 4 THEN 16 ELSE IF k = 5 THEN 32
           ELSE IF k = 6 THEN 64 ELSE 128

\* bit k of byte column col of the XOR of the 127 words of bytes [0, 508):
\* the parity of the number of words that have the bit set
ParityBit(data, col, k) ==
    Cardinality({ w \in 0..126 : (data[4 * w + col + 1] \div Pow2(k)) % 2 = 1 }) % 2

RECURSIVE ParityByte(_, _, _)
ParityByte(data, col, k) ==
    IF k > 7 THEN 0
    ELSE ParityBit(data, col, k) * Pow2(k) + ParityByte(data, col, k + 1)

WordXorOf127(data) ==
    <<ParityByte(data, 3, 0) * 256 + ParityByte(data, 2, 0),
      ParityByte(data, 1, 0) * 256 + ParityByte(data, 0, 0)>>

\* C1: calculate_header_checksum returns the XOR of the 127 little-endian
\* words of bytes [0, 508), with 0xFFFFFFFF returned as 0xFFFFFFFE and 0 as 1,
\* and the bytes from offset 508 on do not change the result.
C1_ChecksumIsXorOf127Words ==
    out.done =>
        LET raw == WordXorOf127(file.data)
        IN  /\ raw = MAX32 => out.sum = <<65535, 65534>>
            /\ raw = ZERO32 => out.sum = <<0, 1>>
            /\ raw # MAX32 /\ raw # ZERO32 => out.sum = raw
            /\ out.twin_sum = out.sum

C1_Witness ==
    /\ out.done
    /\ WordXorOf127(file.data) = MAX32
    /\ Len(file.data) = HEADER_LEN
    /\ out.twin_tail # SubSeq(file.data, CHECKSUM_OFFSET + 1, HEADER_LEN)
    /\ ReadU32(file.data, CHECKSUM_OFFSET) # ZERO32

----------------------------------------------------------------------------
(* What a file holds, read off its bytes and its length without the        *)
(* analysis: the terms the claims about the analysis are stated in.        *)

\* the length of f is exactly 4096 + v, as numbers (no wrap-around)
SizeIs4096Plus(f, v) ==
    /\ f.size[1] = 0
    /\ ~Sub32(f.size[2], U32Small(base_offset)).overflow
    /\ Sub32(f.size[2], U32Small(base_offset)).val = v

\* 4096 + root_cell_offset >= the length of f, as numbers (no wrap-around)
RootCellOutside(f) ==
    LET sum == Add32(U32Small(base_offset), ReadU32(f.data, OFF_ROOT_CELL))
    IN  \/ f.size[1] = 0 /\ (sum.overflow \/ Ge32(sum.val, f.size[2]))
        \/ f.size[1] = 1 /\ sum.overflow /\ Ge32(sum.val, f.size[2])

\* the rules of the validator, 1..8, that the header of f violates
ViolatedRules(f) ==
    { k \in 1..8 :
        \/ k = 1 /\ SubSeq(f.data, 1, 4) # REGF
        \/ k = 2 /\ ReadU32(f.data, CHECKSUM_OFFSET) # calculate_header_checksum(f.data)
        \/ k = 3 /\ ~SizeIs4096Plus(f, ReadU32(f.data, OFF_HIVE_BINS))
        \/ k = 4 /\ ReadU32(f.data, OFF_PRIMARY) # ReadU32(f.data, OFF_SECONDARY)
        \/ k = 5 /\ RootCellOutside(f)
        \/ k = 6 /\ BadVersion(ReadU32(f.data, OFF_MAJOR), ReadU32(f.data, OFF_MINOR))
        \/ k = 7 /\ ReadU32(f.data, OFF_FILE_TYPE) # ZERO32
        \/ k = 8 /\ ReadU32(f.data, OFF_FILE_FORMAT) # <<0, 1>> }

RuleMessage(k) ==
    CASE k = 1 -> "Invalid signature"
      [] k = 2 -> "Header checksum mismatch"
      [] k = 3 -> "Hive bins size mismatch"
      [] k = 4 -> "Sequence numbers do not match"
      [] k = 5 -> "Invalid root cell offset"
      [] k = 6 -> "Unexpected version numbers"
      [] k = 7 -> "Unexpected file type"
      [] OTHER -> "Unexpected file format"

RuleSeverity(k) == IF k \in {1, 2, 5} THEN "Critical" ELSE "Warning"

RuleFixType(k) ==
    CASE k = 2 -> "Checksum"
      [] k = 3 -> "HiveBinsSize"
      [] k = 4 -> "SequenceNumbers"
      [] OTHER -> "None"

\* the issues of an outcome that carry the fix type ft / the message m
IssuesFixing(r, ft) == { i \in 1..Len(r.issues) : r.issues[i].fix_type = ft }
IssuesSaying(r, m) == { i \in 1..Len(r.issues) : r.issues[i].message = m }

----------------------------------------------------------------------------
(* C6 .. C9: the analysis.                                                 *)

\* C6: the analysis that returns an AnalysisResult (registry.rs) runs all
\* eight rules: a header that violates only rule k yields exactly one issue,
\* the one of rule k, with that rule's severity and fixability.
C6_EachRuleAloneIsReported ==
    (res.by = "registry" /\ res.kind = "Ok") =>
        \A k \in 1..8 :
            ViolatedRules(file) = {k} =>
                /\ Len(res.issues) = 1
                /\ res.issues[1].message = RuleMessage(k)
                /\ res.issues[1].severity = RuleSeverity(k)
                /\ res.issues[1].fix_type = RuleFixType(k)

\* C7: an analysis reports the root cell issue (Critical, no fix type)
\* exactly when 4096 + root_cell_offset >= file size, computed without
\* wrap-around.
C7_RootCellFlaggedIffOutside ==
    res.kind = "Ok" =>
        /\ (IssuesSaying(res, "Invalid root cell offset") # {}) <=> RootCellOutside(file)
        /\ \A i \in IssuesSaying(res, "Invalid root cell offset") :
              res.issues[i].severity = "Critical" /\ res.issues[i].fix_type = "None"

\* C8: an analysis reports the hive bins size issue (Warning, HiveBinsSize,
\* FixData = file size - 4096) exactly when the value stored at offset 40
\* differs from file size - 4096.
C8_HiveBinsFlaggedIffDiffers ==
    res.kind = "Ok" =>
        /\ (IssuesFixing(res, "HiveBinsSize") # {})
              <=> ~SizeIs4096Plus(file, ReadU32(file.data, OFF_HIVE_BINS))
        /\ \A i \in IssuesFixing(res, "HiveBinsSize") :
              /\ res.issues[i].severity = "Warning"
              /\ res.issues[i].fix_data[1] = "HiveBinsSize"
              /\ SizeIs4096Plus(file, res.issues[i].fix_data[2])

\* C9: an analysis reports a checksum issue exactly when the checksum stored
\* at offset 508 differs from the calculated one; the issue is Critical, has
\* the fix type Checksum and carries FixData::Checksum(calculated).
C9_ChecksumFlaggedIffDiffers ==
    res.kind = "Ok" =>
        LET stored == <<file.data[512] * 256 + file.data[511],
                        file.data[510] * 256 + file.data[509]>>
            calculated == calculate_header_checksum(file.data)
        IN  /\ (IssuesFixing(res, "Checksum") # {}) <=> stored # calculated
            /\ Cardinality(IssuesFixing(res, "Checksum")) <= 1
            /\ \A i \in IssuesFixing(res, "Checksum") :
                  /\ res.issues[i].severity = "Critical"
                  /\ res.issues[i].message = "Header checksum mismatch"
                  /\ res.issues[i].fix_data = <<"Checksum", calculated>>
            /\ \A i \in 1..Len(res.issues) :
                  res.issues[i].fix_data[1] = "Checksum"
                      => res.issues[i].fix_type = "Checksum"

C9_Witness ==
    /\ res.kind = "Ok"
    /\ res.by = "registry"
    /\ IssuesFixing(res, "Checksum") # {}
    /\ ReadU32(file.data, CHECKSUM_OFFSET) = ZERO32
    /\ ReadU32(file.data, OFF_PRIMARY) # ReadU32(file.data, OFF_SECONDARY)

----------------------------------------------------------------------------
(* C2 .. C5, C10: the fix run.                                             *)

\* the run has ended and reported success: main.rs returns Ok(()), the gui
\* worker has sent "All fixes applied successfully."
ReportedSuccess(r) ==
    /\ r.pc = "done"
    /\ IF r.front = "cli" THEN r.result = "Ok"
       ELSE r.sent # <<>> /\ r.sent[Len(r.sent)] = "All fixes applied successfully."

\* the failure of the run was surfaced: main.rs returns the error, the gui
\* worker has sent a FixComplete that names the failure
SurfacedFailure(r, msg) ==
    IF r.front = "cli" THEN r.result = "Err" ELSE r.sent = <<msg>>

\* a selected fix type that is structural and has an issue in the analysis
\* of the run: the fix the loop of a run that succeeded has written
StructuralFixSelected(r) ==
    \E i \in 1..Len(r.selected) :
        /\ r.selected[i] \in {"HiveBinsSize", "SequenceNumbers"}
        /\ FindIssue(r.analysis.issues, r.selected[i]) # 0

\* C2: no byte of the hive file is written before the copy to <path>.backup
\* has completed; when the copy fails the run ends with the failure
\* surfaced and the hive file as it was.
C2_NoWriteBeforeBackup ==
    run.pc # "none" =>
        /\ run.backed_up # "ok" => file = run.start
        /\ run.backed_up = "ok" => backup = run.start
        /\ run.backed_up = "failed" =>
              /\ run.pc = "done"
              /\ SurfacedFailure(run, "Failed to create backup")
              /\ ~ReportedSuccess(run)

C2_Witness ==
    /\ run.backed_up = "failed"
    /\ run.front = "gui"
    /\ backup.exists
    /\ StructuralFixSelected(run)
    /\ run.pc = "done"

\* C3: when a run reports success after applying a HiveBinsSize or
\* SequenceNumbers fix, the checksum stored at offset 508 is the checksum of
\* the file as the run left it.
C3_ChecksumRecomputedAfterStructuralFix ==
    (ReportedSuccess(run) /\ StructuralFixSelected(run)) =>
        ReadU32(file.data, CHECKSUM_OFFSET) = calculate_header_checksum(file.data)

\* C4: after a run that applied every fix type its analysis proposed, the
\* next analysis lists no Checksum, HiveBinsSize or SequenceNumbers issue,
\* and no issue at all when the other header fields are valid.
C4_AllFixesThenClean ==
    (/\ ReportedSuccess(run)
     /\ run.reanalyzed
     /\ run.selected = FixableTypes(run.analysis.issues)) =>
        /\ res.kind = "Ok"
        /\ \A i \in 1..Len(res.issues) : res.issues[i].fix_type = "None"
        /\ ViolatedRules(file) \cap {1, 5, 6, 7, 8} = {} => res.issues = <<>>

\* C5: when the analysis reported a checksum mismatch and the run applied
\* only the Checksum fix of that analysis, the next analysis reports no
\* checksum issue.
C5_ChecksumFixRoundTrip ==
    (/\ ReportedSuccess(run)
     /\ run.reanalyzed
     /\ run.selected = <<"Checksum">>
     /\ IssuesFixing(run.analysis, "Checksum") # {}) =>
        /\ res.kind = "Ok"
        /\ IssuesFixing(res, "Checksum") = {}
        /\ IssuesSaying(res, "Header checksum mismatch") = {}

C5_Witness ==
    /\ ReportedSuccess(run)
    /\ run.reanalyzed
    /\ run.front = "gui"
    /\ run.selected = <<"Checksum">>
    /\ IssuesFixing(run.analysis, "Checksum") # {}
    /\ file # run.start

\* C10: an analysis reports the sequence number issue exactly when the
\* primary number (offset 4) differs from the secondary (offset 8), as a
\* Warning with the fix type SequenceNumbers and the data (primary, primary);
\* no write of a run changes the primary number that was analysed.
C10_SequenceIssueKeepsPrimary ==
    LET primary == ReadU32(file.data, OFF_PRIMARY)
        secondary == ReadU32(file.data, OFF_SECONDARY)
    IN  /\ (res.kind = "Ok" /\ (run.pc = "none" \/ run.reanalyzed)) =>
              /\ (IssuesFixing(res, "SequenceNumbers") # {}) <=> primary # secondary
              /\ \A i \in IssuesFixing(res, "SequenceNumbers") :
                    /\ res.issues[i].severity = "Warning"
                    /\ res.issues[i].message = "Sequence numbers do not match"
                    /\ res.issues[i].fix_data = <<"SequenceNumbers", primary, primary>>
        /\ run.pc # "none" =>
              /\ primary = ReadU32(run.start.data, OFF_PRIMARY)
              /\ primary = run.analysis.file_info.primary_seq_num

C10_Witness ==
    /\ ReportedSuccess(run)
    /\ \E i \in 1..Len(run.selected) : run.selected[i] = "SequenceNumbers"
    /\ IssuesFixing(run.analysis, "SequenceNumbers") # {}
    /\ ReadU32(file.data, OFF_SECONDARY) # ReadU32(run.start.data, OFF_SECONDARY)
    /\ ReadU32(file.data, OFF_SECONDARY) = ReadU32(run.start.data, OFF_PRIMARY)

----------------------------------------------------------------------------
(* C11 .. C13, C19: the shape of what an analysis returns.                 *)

\* the rule, 1..8, an issue belongs to by its message; 0 for any other
RuleOf(issue) ==
    LET ks == { k \in 1..8 : RuleMessage(k) = issue.message }
    IN  IF ks = {} THEN 0 ELSE CHOOSE k \in ks : TRUE

\* C11: the issues of an analysis are in the order of the rules (signature,
\* checksum, hive bins size, sequence numbers, root cell, version, file type,
\* file format), with at most one issue per rule.
C11_IssuesInRuleOrder ==
    res.kind = "Ok" =>
        /\ \A i \in 1..Len(res.issues) : RuleOf(res.issues[i]) # 0
        /\ \A i, j \in 1..Len(res.issues) :
              i < j => RuleOf(res.issues[i]) < RuleOf(res.issues[j])

C11_Witness ==
    /\ res.kind = "Ok"
    /\ res.by = "registry"
    /\ Len(res.issues) = 2
    /\ RuleOf(res.issues[1]) = 3
    /\ RuleOf(res.issues[2]) = 4

\* C12: the analysis of a file shorter than 512 bytes ends in an error
\* value: no result is returned and it does not panic.
C12_ShortFileIsAnError ==
    (res.by # "none" /\ file.size[1] = 0 /\ Lt32(file.size[2], U32Small(HEADER_LEN)))
        => res.kind = "Err"

\* C13: for a file of 512 bytes or more the analysis returns an error or a
\* result whose size is the length of the file and whose measured hive bins
\* size is that length - 4096, as numbers; it never panics.
C13_SizesAreTrueOrError ==
    (res.by # "none" /\ Len(file.data) = HEADER_LEN) =>
        /\ res.kind \in {"Ok", "Err"}
        /\ res.kind = "Ok" =>
              /\ file.size = <<0, res.file_info.size>>
              /\ SizeIs4096Plus(file, res.file_info.measured_hive_bins_size)

\* the FixData shape of a fix type: its tag and the number of its values
ShapeOf(fix_type) ==
    CASE fix_type = "SequenceNumbers" -> <<"SequenceNumbers", 3>>
      [] fix_type \in {"HiveBinsSize", "Checksum"} -> <<fix_type, 2>>
      [] OTHER -> <<"None", 1>>

\* C19: every issue of an analysis has fix_type and fix_data both absent, or
\* both present with the FixData variant of the FixType; no FixType occurs
\* in two issues.
C19_FixDataMatchesFixType ==
    res.kind = "Ok" =>
        /\ \A i \in 1..Len(res.issues) :
              /\ res.issues[i].fix_type \in FixTypes \cup {"None"}
              /\ <<res.issues[i].fix_data[1], Len(res.issues[i].fix_data)>>
                    = ShapeOf(res.issues[i].fix_type)
        /\ \A ft \in FixTypes : Cardinality(IssuesFixing(res, ft)) <= 1

C19_Witness ==
    /\ res.kind = "Ok"
    /\ Cardinality({ res.issues[i].fix_type : i \in 1..Len(res.issues) } \cap FixTypes) >= 2
    /\ \E i \in 1..Len(res.issues) : res.issues[i].fix_type = "None"

----------------------------------------------------------------------------
(* C14 .. C16, C20: what a fix run writes.                                 *)

\* the byte offsets a fix of fix_type may write
FieldOf(fix_type) ==
    CASE fix_type = "HiveBinsSize" -> OFF_HIVE_BINS..(OFF_HIVE_BINS + 3)
      [] fix_type = "SequenceNumbers" -> OFF_PRIMARY..(OFF_SECONDARY + 3)
      [] fix_type = "Checksum" -> CHECKSUM_OFFSET..(CHECKSUM_OFFSET + 3)
      [] OTHER -> {}

\* the byte offsets at which f and g differ, f and g of one length
ChangedOffsets(f, g) ==
    { i - 1 : i \in { j \in 1..Len(f.data) : f.data[j] # g.data[j] } }

\* C14: on a hive file of at least 512 bytes no step of an analysis or of a
\* fix run, failed ones included, changes the length of the file or a byte
\* outside [4,12), [40,44) and [508,512); a fix write changes bytes of its own
\* field only: offset 40 for HiveBinsSize, 4 and 8 for SequenceNumbers, 508
\* for Checksum and for the recalculated checksum.
C14_WritesStayInTheirFields ==
    [][ Len(file.data) = HEADER_LEN =>
          /\ file'.size = file.size
          /\ file'.exists = file.exists
          /\ Len(file'.data) = Len(file.data)
          /\ ChangedOffsets(file, file') \subseteq
                IF run.pc = "fixes" /\ run.fixes # <<>> THEN FieldOf(Head(run.fixes))
                ELSE IF run.pc = "fixes" THEN FieldOf("Checksum")
                ELSE {} ]_vars

C14_Witness ==
    /\ run.n = MaxRuns
    /\ run.pc = "done"
    /\ ~ReportedSuccess(run)
    /\ run.writes # <<>>
    /\ ChangedOffsets(run.start, file) # {}

\* a call of the run has failed: main.rs has returned the error; the gui
\* worker has set error_occurred or returned after sending the failure
FailureSurfaced(r) == r.result = "Err" \/ r.error_occurred

\* the value the analysis of the run proposed for the field at off
ProposedAt(r, fix_type, off) ==
    LET d == r.analysis.issues[FindIssue(r.analysis.issues, fix_type)].fix_data
    IN  IF off = OFF_SECONDARY THEN d[3] ELSE d[2]

\* C15: once a fix write has failed the run is over with the failure
\* surfaced (an error returned, or a FixComplete that names the failure and
\* no report of success), no step writes the hive file any more, and the
\* writes made before the failure are still in the file.
C15_FirstFailureEndsTheRun ==
    /\ [](FailureSurfaced(run) =>
            /\ run.pc = "done"
            /\ ~ReportedSuccess(run)
            /\ run.front = "gui" => Len(run.sent) = 1
            /\ \A i \in 1..Len(run.writes) :
                  ReadU32(file.data, run.writes[i][3])
                      = ProposedAt(run, run.writes[i][2], run.writes[i][3]))
    /\ [][FailureSurfaced(run) => file' = file]_vars

C15_Witness ==
    /\ FailureSurfaced(run)
    /\ run.backed_up = "ok"
    /\ Len(run.writes) >= 2
    /\ ChangedOffsets(run.start, file) # {}
    /\ run.needs_checksum_update
    /\ ReadU32(file.data, CHECKSUM_OFFSET) # calculate_header_checksum(file.data)

\* the analysis a holds no issue with the fix type ft, or the first one it
\* holds carries FixData of another variant
NothingToApply(a, ft) ==
    \/ IssuesFixing(a, ft) = {}
    \/ \E i \in IssuesFixing(a, ft) :
          /\ \A j \in IssuesFixing(a, ft) : i <= j
          /\ a.issues[i].fix_data[1] # ft

\* C16: a turn of the loop for a selected fix type that the analysis has no
\* issue for (or whose issue carries other FixData) writes nothing, reports
\* no failure and goes on to the next fix type; a run on an analysis without
\* any fixable issue leaves the hive file as it was, whatever was selected.
C16_UnmatchedFixIsSkipped ==
    /\ [][ (/\ run.pc = "fixes"
            /\ run.fixes # <<>>
            /\ NothingToApply(run.analysis, Head(run.fixes))) =>
              /\ file' = file
              /\ run'.writes = run.writes
              /\ run'.fixes = Tail(run.fixes)
              /\ run'.pc = "fixes"
              /\ ~FailureSurfaced(run') ]_vars
    /\ []((run.pc # "none" /\ FixableTypes(run.analysis.issues) = <<>>) =>
              /\ file = run.start
              /\ run.writes = <<>>
              /\ run.backed_up = "ok" => ~FailureSurfaced(run))

C16_Witness ==
    /\ run.front = "gui"
    /\ run.analysis.issues = <<SignatureIssue>>
    /\ run.selected = <<"Checksum", "HiveBinsSize", "SequenceNumbers">>
    /\ ReportedSuccess(run)
    /\ file = run.start

\* the writes of the loop for the fix types sel[1..k], each written in full
\* where the analysis a has an issue to apply, in the order of sel
RECURSIVE WritesInOrder(_, _, _)
WritesInOrder(a, sel, k) ==
    IF k = 0 THEN <<>>
    ELSE WritesInOrder(a, sel, k - 1)
         \o (IF NothingToApply(a, sel[k]) THEN <<>>
             ELSE Logged(<<>>, "fix", sel[k], OffsetsWritten(sel[k], "ok")))

IsPrefix(s, t) == Len(s) <= Len(t) /\ s = SubSeq(t, 1, Len(s))

\* the writes of the run are those of the selected fix types, in the order
\* they were selected (the last one cut short if its call failed), followed
\* by nothing but the recalculated checksum
WritesFollowSelection(r) ==
    LET k == Len(r.selected) - Len(r.fixes)
        finals == { i \in 1..Len(r.writes) : r.writes[i][1] = "final" }
        fixlog == SubSeq(r.writes, 1, Len(r.writes) - Cardinality(finals))
    IN  /\ finals \subseteq {Len(r.writes)}
        /\ finals # {} => r.fixes = <<>> /\ r.writes[Len(r.writes)][3] = CHECKSUM_OFFSET
        /\ IF FailureSurfaced(r) /\ k > 0
           THEN /\ IsPrefix(WritesInOrder(r.analysis, r.selected, k - 1), fixlog)
                /\ IsPrefix(fixlog, WritesInOrder(r.analysis, r.selected, k))
           ELSE fixlog = WritesInOrder(r.analysis, r.selected, k)

\* C20: the fixes of a run are written in the order they were selected, and
\* when a structural fix was written the last write of a run that reports
\* success is the recalculated checksum at offset 508, after the write of
\* every selected fix, a selected Checksum fix included.
C20_SelectedOrderThenChecksum ==
    run.pc \in {"fixes", "done"} =>
        /\ WritesFollowSelection(run)
        /\ (/\ ReportedSuccess(run)
            /\ \E i \in 1..Len(run.writes) : IsStructural(run.writes[i][2])) =>
              run.writes[Len(run.writes)] = <<"final", "Checksum", CHECKSUM_OFFSET>>

----------------------------------------------------------------------------
(* C17.                                                                    *)

\* C17: a fix write made a second time with the same value leaves the file
\* with exactly the bytes and the length it had after the first.
C17_WritesAreIdempotent ==
    out.count = 2 => file = out.first

C17_Witness ==
    /\ out.count = 2
    /\ out.call[1] = "SequenceNumbers"
    /\ out.first # out.before
    /\ ReadU32(file.data, OFF_PRIMARY) # ReadU32(out.before.data, OFF_PRIMARY)
    /\ ReadU32(file.data, OFF_SECONDARY) = out.call[3]

----------------------------------------------------------------------------
(* C18.                                                                    *)

\* the fix workers in flight
FixWorkersInFlight ==
    LET workers == { t \in BagToSet(gui.threads) : t.kind = "fix" }
    IN  BagCardinality([t \in workers |-> CopiesIn(t, gui.threads)])

\* C18: the GUI never has two fix workers in flight on the file.
C18_OneFixWorkerAtATime ==
    FixWorkersInFlight <= 1

----------------------------------------------------------------------------
(* C21.                                                                    *)

\* the report a front end would show for the file as it is now
FreshReport(front) ==
    IF front = "gui" THEN check_registry_file(file, build, "ok")
    ELSE main_check_registry_file(file, build, "ok")

\* the front end has nothing more to do for the run: the command line program
\* returns from check_registry_file when its run is done, the GUI has handled
\* Message::FixComplete and its analysis thread has ended
FrontEndAtRest(r) ==
    /\ r.pc = "done"
    /\ r.front = "cli" \/ r.reanalyzed

\* C21: once a fix run that wrote to the file is over, the report the front
\* end shows is the analysis of the file as fixed, in the command line program
\* and in the GUI.
C21_ReportIsRefreshedAfterFix ==
    (FrontEndAtRest(run) /\ run.writes # <<>>) => res = FreshReport(run.front)

----------------------------------------------------------------------------
(* C22.                                                                    *)

\* the XOR of the 127 words of a header, before the special cases
RawXor(f) == XorWords(f.data, 0, ZERO32)

\* the stored checksum of a file with a whole header is the calculated one
ChecksumMatches(f) ==
    ReadU32(f.data, CHECKSUM_OFFSET) = calculate_header_checksum(f.data)

\* a call of update_hive_bins_size or update_sequence_numbers has been made on
\* a file with a whole header and has changed a byte of it
StructuralWriteChanged ==
    /\ out.count = 1
    /\ out.call[1] \in {"HiveBinsSize", "SequenceNumbers"}
    /\ Len(out.before.data) = HEADER_LEN
    /\ file.data # out.before.data

\* two XORs that calculate_header_checksum maps to one checksum
SameChecksum(x, y) ==
    \/ x = y
    \/ {x, y} = {ZERO32, <<0, 1>>}
    \/ {x, y} = {MAX32, <<LIMB - 1, LIMB - 2>>}

\* C22 as stated: a HiveBinsSize or SequenceNumbers write that changes its
\* field in a header whose stored checksum matched leaves a stored checksum
\* that does not match; a Checksum write leaves the calculated checksum as
\* it was.
C22_StructuralWriteInvalidates ==
    /\ (StructuralWriteChanged /\ ChecksumMatches(out.before))
           => ~ChecksumMatches(file)
    /\ (out.count = 1 /\ out.call[1] = "Checksum"
        /\ Len(out.before.data) = HEADER_LEN)
           => calculate_header_checksum(file.data)
                  = calculate_header_checksum(out.before.data)

\* C22, amended: after such a write the stored checksum still matches exactly
\* when the XOR of the 127 words is the same as before or has moved between 0
\* and 1 or between 0xFFFFFFFE and 0xFFFFFFFF, which the special cases map to
\* one checksum; a HiveBinsSize write that changes its field always changes
\* the XOR; a Checksum write leaves the calculated checksum as it was.
C22_StructuralWriteInvalidatesUnlessSpecialCase ==
    /\ (StructuralWriteChanged /\ ChecksumMatches(out.before))
           => (ChecksumMatches(file)
                   <=> SameChecksum(RawXor(out.before), RawXor(file)))
    /\ (StructuralWriteChanged /\ out.call[1] = "HiveBinsSize")
           => RawXor(file) # RawXor(out.before)
    /\ (out.count = 1 /\ out.call[1] = "Checksum"
        /\ Len(out.before.data) = HEADER_LEN)
           => calculate_header_checksum(file.data)
                  = calculate_header_checksum(out.before.data)

\* C22: a HiveBinsSize write has changed the field of a header whose checksum
\* matched, the XOR has moved from one special case value to its neighbour,
\* and the stored checksum matches still.
C22_Witness ==
    /\ StructuralWriteChanged
    /\ out.call[1] = "HiveBinsSize"
    /\ ChecksumMatches(out.before)
    /\ ChecksumMatches(file)
    /\ RawXor(file) # RawXor(out.before)

----------------------------------------------------------------------------
(* C23.                                                                    *)

\* the GUI has analysed the file before a fix run and again after it, and the
\* file is as it was at the first analysis
AnalysedTwiceUnchanged(r) ==
    /\ r.front = "gui"
    /\ r.pc = "done"
    /\ r.reanalyzed
    /\ file = r.start

----------------------------------------------------------------------------
(* C24.                                                                    *)

\* <path>.backup is the copy that a backup step that succeeded has made: no
\* other step of the model leaves a backup that holds a header
HoldsACopy(b) == b.exists /\ Len(b.data) = HEADER_LEN

\* C24: <path>.backup holds the hive as it was at the start of the latest run
\* whose backup step succeeded: the run that has made its backup finds its
\* start in it, and a copy made by an earlier run changes only when the
\* backup step of a later run succeeds, to the hive as that run found it.
C24_BackupIsStartOfLatestBackedUpRun ==
    /\ [](run.backed_up = "ok" => backup = run.start)
    /\ [][(HoldsACopy(backup) /\ backup' # backup) =>
              (run'.backed_up = "ok" /\ backup' = file /\ backup' = run'.start)]_vars

----------------------------------------------------------------------------
(* C25, C26.                                                               *)

\* C25: until the user has clicked 'Apply Fixes', the hive file is as it was
\* opened and no backup has been made.
C25_NoWriteBeforeApplyFixes ==
    ~gui.applied => (file \in GuiFiles /\ backup = NoFile)

\* the analysis threads in flight
AnalysisThreadsInFlight ==
    { t \in BagToSet(gui.threads) : t.kind = "analyze" }

\* C26: with no analysis thread in flight, the analysis result the GUI holds
\* is of the file that is selected.
C26_AnalysisIsOfSelectedFile ==
    (AnalysisThreadsInFlight = {} /\ gui.analysis_result.kind = "Ok")
        => gui.analysis_path = gui.selected_file

----------------------------------------------------------------------------
(* C28.                                                                    *)

\* How many steps of the message loop and of its threads a message can still
\* cause: FileSelected, an analysis thread, FixComplete, the analysis thread
\* of FixComplete, AnalysisComplete; FixSelected, the fix worker and its
\* turns, FixComplete and so on.
MessagePotential(m) ==
    CASE m.type = "FileSelected" -> 5
      [] m.type = "AnalysisComplete" -> 1
      [] m.type = "FixSelected" -> 7 + Len(m.fixes)
      [] OTHER -> 3

ThreadPotential(t) ==
    IF t.kind = "analyze" THEN (IF t.pc = "select" THEN 4 ELSE 2)
    ELSE IF t.pc = "backup" THEN 6 + Len(t.fixes)
    ELSE 5 + Len(t.fixes)

RECURSIVE ChannelPotential(_, _)
ChannelPotential(channel, k) ==
    IF k = 0 THEN 0
    ELSE ChannelPotential(channel, k - 1) + MessagePotential(channel[k])

RECURSIVE ThreadsPotential(_, _)
ThreadsPotential(threads, rest) ==
    IF rest = {} THEN 0
    ELSE LET t == CHOOSE x \in rest : TRUE
         IN  CopiesIn(t, threads) * ThreadPotential(t)
             + ThreadsPotential(threads, rest \ {t})

Potential(g) ==
    ChannelPotential(g.channel, Len(g.channel))
    + ThreadsPotential(g.threads, BagToSet(g.threads))

\* the most a click adds: FixSelected with every fix type
ClickPotential == 7 + Cardinality(FixTypes)

\* C28: every step of the message loop or of a thread lowers the number of
\* steps the messages and threads in flight can still cause, and a click
\* raises it by a bounded amount: after the last click the loop comes to rest.
C28_MessageLoopQuiesces ==
    /\ [](Potential(gui) <= ClickPotential * gui.clicks)
    /\ [][(gui'.clicks = gui.clicks
           /\ (gui'.channel # gui.channel \/ gui'.threads # gui.threads))
              => Potential(gui') < Potential(gui)]_vars
    /\ [][gui'.clicks # gui.clicks
              => Potential(gui') <= Potential(gui) + ClickPotential]_vars

\* C28: an analysis for FileSelected has failed, its FixComplete has been
\* handled, the analysis that followed has failed without a message, and
\* nothing is in flight.
C28_Witness ==
    /\ gui.status_message = "Analysis failed"
    /\ gui.selected_file = "other"
    /\ gui.channel = <<>>
    /\ gui.threads = EmptyBag

----------------------------------------------------------------------------
(* C27.                                                                    *)

\* the texts of the FixComplete messages of a fix worker that name a failure
FailureMessages ==
    { FixFailureMessage(fix_type) : fix_type \in FixTypes }
    \cup {"Failed to create backup", "Failed to open file for checksum update",
          "Failed to update final checksum"}

\* C27: a GUI fix worker has sent nothing while it runs and exactly one
\* FixComplete when it has ended; the one it sends after a failed backup, a
\* failed fix write or a failed reopening or rewriting for the final checksum
\* names the failure, and 'All fixes applied successfully.' is sent only by a
\* worker none of whose writes failed.
C27_WorkerSendsOneFixComplete ==
    run.front = "gui" =>
        /\ run.pc # "done" => run.sent = <<>>
        /\ run.pc = "done" =>
              /\ Len(run.sent) = 1
              /\ run.error_occurred => run.sent[1] \in FailureMessages
              /\ ~run.error_occurred =>
                    run.sent[1] = "All fixes applied successfully."

\* C27: a GUI fix worker has written a structural fix, the write of the final
\* checksum has failed and the worker has sent the message of that failure.
C27_Witness ==
    /\ run.front = "gui"
    /\ run.pc = "done"
    /\ run.writes # <<>>
    /\ run.sent = <<"Failed to update final checksum">>

====
